---------------------------- MODULE Spec2Model ----------------------------
(***************************************************************************)
(* Model of notion-gitlab-sync: one process run lists the Notion database, *)
(* builds the issue-id -> page-id map, lists the GitLab issues and labels, *)
(* replaces the tag options, splits the issues into pages to create and    *)
(* pages to update and writes them in batches of OPERATION_BATCH_SIZE.     *)
(*                                                                         *)
(* GitLab (the source) is iidBase / nIssues / assigned / malformed plus    *)
(* srcLabels; Notion (the destination) is dest / options.  Text is a       *)
(* sequence of one-character strings, so that "#" + iid and .slice(1) are  *)
(* modelled by what they do.                                               *)
(***************************************************************************)
EXTENDS Integers, Sequences, FiniteSets, TLC

VARIABLES
    \* ---- GitLab project (source) ----
    iidBase,      \* the iids at or below iidBase are gone from the project
    nIssues,      \* the project holds the iids iidBase+1..iidBase+nIssues
    assigned,     \* iids one of whose assignees is named "Jan Strich"
    malformed,    \* iids whose JSON lacks the labels array (the mapper throws)
    srcLabels,    \* the project's labels, in the order the API returns them
    \* ---- Notion database (destination) ----
    dest,         \* page id -> rich_text of the "id" property (plain texts)
    options,      \* multi_select options of the "tags" property
    rejects,      \* iids whose page write Notion answers with an error, this run
    pending,      \* pages.create requests of another process, still in flight
    \* ---- the process ----
    runNo,        \* number of the process run (1, 2, ...)
    prevDone,     \* history: the run before this one logged the success line
    schemaUpdated, \* history: databases.update has resolved in this run
    failedAt,     \* history: the stage whose rejection ended the run, or "none"
    pc,           \* the await the run is suspended at, or "done" / "aborted"
    cursor,       \* getIssuesFromNotionDatabase: cursor (0 is undefined)
    pages,        \* getIssuesFromNotionDatabase: pages accumulated so far
    gitLabIssuesIdToNotionPageId,  \* the module-level map
    page,         \* getGitLabIssuesForRepository: page
    lastPageSize, \* getGitLabIssuesForRepository: lastPageSize
    issues,       \* getGitLabIssuesForRepository: issues accumulated so far
    labels,       \* syncNotionDatabaseWithGitLab: labels
    pagesToCreate, \* getNotionOperations: pagesToCreate
    pagesToUpdate, \* getNotionOperations: pagesToUpdate
    batch,        \* createPages / updatePages: number of the chunk being written
    awaiting,     \* TRUE while suspended at await Promise.all(...)
    createOps,    \* per element of pagesToCreate: state of its notion.pages.create
    updateOps     \* per element of pagesToUpdate: state of its notion.pages.update

vars == << iidBase, nIssues, assigned, malformed, srcLabels, dest, options,
           rejects, pending, runNo, prevDone, schemaUpdated, failedAt, pc,
           cursor, pages,
           gitLabIssuesIdToNotionPageId, page, lastPageSize, issues, labels,
           pagesToCreate, pagesToUpdate, batch, awaiting, createOps, updateOps >>

sourceVars == << iidBase, nIssues, assigned, malformed, srcLabels >>
runVars == << rejects, runNo, prevDone >>
listerVars == << page, lastPageSize, issues >>
notionListerVars == << cursor, pages, gitLabIssuesIdToNotionPageId >>
writerVars == << pagesToCreate, pagesToUpdate, batch, awaiting, createOps, updateOps >>

(***************************************************************************)
(* Program constants                                                       *)
(***************************************************************************)
OPERATION_BATCH_SIZE == 10

pageSize == 100

availableColors ==
    << "blue", "brown", "default", "gray", "green", "orange", "pink",
       "purple", "red", "yellow" >>

(***************************************************************************)
(* Bounds of the model                                                     *)
(***************************************************************************)
\* Number of process runs, one after the other.
MaxRuns == 2
\* Issues of the small projects of Init.
MaxIssues == 2
\* Pages the Notion database holds before the first run, in Init.
MaxDestPages == 2
\* Results the Notion API returns per databases.query call.
DestPageSize == 2
\* Labels of the GitLab project.
MaxLabels == 11
\* Page ids: the page created for issue iid by run r is iid * HandleStride + r.
HandleStride == 1000
\* Largest iid of the identity round trip.
MaxLocalId == 10000
\* Issues of the project of the batched writer's specification.
WriterIssues == 23
\* Of these, the issues that have a page before the run, when any has.
WriterExisting == 12

(***************************************************************************)
(* Sequences and text                                                      *)
(***************************************************************************)
Min(a, b) == IF a < b THEN a ELSE b

Range(s) == { s[i] : i \in 1..Len(s) }

\* Array.prototype.filter
RECURSIVE Filter(_, _)
Filter(s, S) ==
    IF s = << >> THEN << >>
    ELSE IF Head(s) \in S THEN << Head(s) >> \o Filter(Tail(s), S)
         ELSE Filter(Tail(s), S)

\* The elements of a finite set of integers in ascending order.
RECURSIVE SortedSeq(_)
SortedSeq(S) ==
    IF S = {} THEN << >>
    ELSE LET m == CHOOSE x \in S : \A y \in S : x <= y
         IN << m >> \o SortedSeq(S \ {m})

Digit == << "0", "1", "2", "3", "4", "5", "6", "7", "8", "9" >>

\* String(n) of a non-negative integer: its decimal digits.
RECURSIVE ToStr(_)
ToStr(n) ==
    IF n < 10 THEN << Digit[n + 1] >>
    ELSE ToStr(n \div 10) \o << Digit[(n % 10) + 1] >>

\* Mutant of Slice1: slice(2).
Slice1_Two(t) == IF Len(t) < 2 THEN << >> ELSE Tail(Tail(t))

\* String.prototype.slice(1)
Slice1(t) == IF t = << >> THEN << >> ELSE Tail(t)


(***************************************************************************)
(* GitLab: the issues API and the field mapper (gitlab.js)                 *)
(***************************************************************************)
\* Response to GET .../issues?sort=asc&page=p&per_page=pageSize.
IssuesPage(p) ==
    LET first == (p - 1) * pageSize
        n == IF nIssues > first THEN Min(pageSize, nIssues - first) ELSE 0
    IN [ i \in 1..n |-> iidBase + first + i ]

\* Mutant of FilterAssigned: the page is accumulated unfiltered.
FilterAssigned_All(data) == data

\* data.filter(issue => issue.assignees.some(a => a.name === "Jan Strich"))
FilterAssigned(data) == Filter(data, assigned)

\* Mutant of PageWasFull: the loop goes on until a page comes back empty.
PageWasFull_NonEmpty(size) == size > 0

\* The do-while condition: was the received page full?
PageWasFull(size) == size = pageSize

\* Mutant of IdentityText: the "#" is left out.
IdentityText_NoPrefix(iid) == ToStr(iid)

\* "#" + issue.iid
IdentityText(iid) == << "#" >> \o ToStr(iid)

\* getPropertiesFromIssue(issue): the properties of the page of an issue.
getPropertiesFromIssue(iid) ==
    [ id |-> << IdentityText(iid) >>, title |-> iid ]

\* issue.labels.map(...) throws a TypeError when the issue has no labels array.
MapperThrows(iid) == iid \in malformed

(***************************************************************************)
(* Notion: the database as the API shows it                                *)
(***************************************************************************)
NoCursor == 0

\* The pages of the database in the order databases.query lists them.
Listing ==
    LET ids == SortedSeq(DOMAIN dest)
    IN [ i \in 1..Len(ids) |-> [ id |-> ids[i], rich_text |-> dest[ids[i]] ] ]

\* databases.query({ start_cursor }): results and next_cursor.
QueryResults(c) == SubSeq(Listing, c + 1, Min(c + DestPageSize, Len(Listing)))

QueryNextCursor(c) ==
    IF c + DestPageSize < Len(Listing) THEN c + DestPageSize ELSE NoCursor

\* The database after pages.create / pages.update wrote the properties.
StorePage(db, id, props) ==
    [ x \in DOMAIN db \cup {id} |-> IF x = id THEN props.id ELSE db[x] ]

\* The id pages.create gives the page it creates.
NewPageId(r, iid) == iid * HandleStride + r

(***************************************************************************)
(* index.js: the pure parts                                                *)
(***************************************************************************)
\* page.properties.id.rich_text[0].plain_text throws on an empty rich_text.
ReadThrows(pg) == pg.rich_text = << >>

\* page.properties.id.rich_text[0].plain_text.slice(1)
IssueNumberOf(pg) == Slice1(pg.rich_text[1])

\* The for loop of getIssuesFromNotionDatabase: a page whose read throws is
\* skipped ("oops"), every other page is pushed.
RECURSIVE ParsePages(_)
ParsePages(pgs) ==
    IF pgs = << >> THEN << >>
    ELSE IF ReadThrows(Head(pgs)) THEN ParsePages(Tail(pgs))
         ELSE << [ pageId |-> Head(pgs).id,
                   issueNumber |-> IssueNumberOf(Head(pgs)) ] >>
              \o ParsePages(Tail(pgs))

\* Mutant of Put: a key the object already has keeps its value.
Put_KeepFirst(m, k, v) ==
    [ x \in DOMAIN m \cup {k} |-> IF x \in DOMAIN m THEN m[x] ELSE v ]

\* map[key] = value on a JavaScript object.
Put(m, k, v) == [ x \in DOMAIN m \cup {k} |-> IF x = k THEN v ELSE m[x] ]

\* The for loop of setInitialGitLabToNotionIdMap.
RECURSIVE SetMap(_, _)
SetMap(m, currentIssues) ==
    IF currentIssues = << >> THEN m
    ELSE SetMap(Put(m, Head(currentIssues).issueNumber, Head(currentIssues).pageId),
                Tail(currentIssues))

EmptyMap == [ x \in {} |-> 0 ]

\* The property key a number is converted to: map[issue.iid].
KeyOf(iid) == ToStr(iid)

\* A lookup under the identity text in place of the issue number.
Lookup_ByText(m, iid) ==
    IF IdentityText(iid) \in DOMAIN m THEN m[IdentityText(iid)] ELSE 0

\* map[issue.iid]; 0 stands for undefined.
Lookup(m, iid) == IF KeyOf(iid) \in DOMAIN m THEN m[KeyOf(iid)] ELSE 0

\* A test that takes undefined for a page id.
Truthy_Undefined(pageId) == pageId >= 0

\* if (pageId)
Truthy(pageId) == pageId # 0

\* Mutant of getNotionOperations: an issue that has a page is pushed to
\* pagesToCreate as well (the else is lost).
getNotionOperations_NoElse(iss, m) ==
    LET known(iid) == Truthy(Lookup(m, iid))
        toUpdate == SelectSeq(iss, known)
    IN [ pagesToCreate |-> iss,
         pagesToUpdate |-> [ i \in 1..Len(toUpdate) |->
                               [ iid |-> toUpdate[i],
                                 pageId |-> Lookup(m, toUpdate[i]) ] ] ]

\* getNotionOperations(issues), reading the map m: each issue, in order, is
\* pushed to pagesToUpdate with its pageId when the map has one, and to
\* pagesToCreate otherwise.
getNotionOperations(iss, m) ==
    LET known(iid) == Truthy(Lookup(m, iid))
        new(iid) == ~known(iid)
        toUpdate == SelectSeq(iss, known)
    IN [ pagesToCreate |-> SelectSeq(iss, new),
         pagesToUpdate |-> [ i \in 1..Len(toUpdate) |->
                               [ iid |-> toUpdate[i],
                                 pageId |-> Lookup(m, toUpdate[i]) ] ] ]

\* _.chunk(list, OPERATION_BATCH_SIZE): the positions of chunk b, and the
\* number of chunks.
ChunkFirst(b) == (b - 1) * OPERATION_BATCH_SIZE + 1

ChunkLast(b, len) == Min(b * OPERATION_BATCH_SIZE, len)

ChunkPositions(b, len) == ChunkFirst(b)..ChunkLast(b, len)

NumChunks(len) == (len + OPERATION_BATCH_SIZE - 1) \div OPERATION_BATCH_SIZE

\* A colour choice that counts the labels from 1.
MultiSelectOptions_FromOne(ls) ==
    [ i \in 1..Len(ls) |->
        [ name |-> ls[i],
          color |-> availableColors[(i % Len(availableColors)) + 1] ] ]

\* labels.map((l, i) => ({ name, color: availableColors[i % length] }))
MultiSelectOptions(ls) ==
    [ i \in 1..Len(ls) |->
        [ name |-> ls[i],
          color |-> availableColors[((i - 1) % Len(availableColors)) + 1] ] ]


(***************************************************************************)
(* The process                                                             *)
(***************************************************************************)
\* A process as node starts it: nothing fetched, the module-level map empty,
\* suspended at the first await (databases.retrieve).
ProcessStart ==
    /\ pc = "retrieve"
    /\ schemaUpdated = FALSE
    /\ failedAt = "none"
    /\ cursor = NoCursor
    /\ pages = << >>
    /\ gitLabIssuesIdToNotionPageId = EmptyMap
    /\ page = 1
    /\ lastPageSize = -1
    /\ issues = << >>
    /\ labels = << >>
    /\ pagesToCreate = << >>
    /\ pagesToUpdate = << >>
    /\ batch = 0
    /\ awaiting = FALSE
    /\ createOps = << >>
    /\ updateOps = << >>

\* let db = await notion.databases.retrieve(...)
RetrieveDb ==
    /\ pc = "retrieve"
    /\ pc' = "query"
    /\ UNCHANGED << pending, sourceVars, dest, options, runVars,
                    schemaUpdated, failedAt,
                    listerVars, notionListerVars, labels, writerVars >>

\* A lister that leaves the loop after its first response.
QueryDb_FirstResponseOnly ==
    /\ pc = "query"
    /\ pages' = pages \o QueryResults(cursor)
    /\ gitLabIssuesIdToNotionPageId' =
           SetMap(gitLabIssuesIdToNotionPageId, ParsePages(pages'))
    /\ cursor' = cursor
    /\ pc' = "issues"
    /\ UNCHANGED << pending, sourceVars, dest, options, runVars, schemaUpdated,
                    failedAt, listerVars, labels, writerVars >>

\* One turn of the while (true) loop of getIssuesFromNotionDatabase; on the
\* last one the pages are parsed and setInitialGitLabToNotionIdMap fills the
\* map, then syncNotionDatabaseWithGitLab requests the first page of issues.
QueryDb ==
    /\ pc = "query"
    /\ LET results == QueryResults(cursor)
           next_cursor == QueryNextCursor(cursor)
       IN /\ pages' = pages \o results
          /\ IF next_cursor = NoCursor
             THEN /\ gitLabIssuesIdToNotionPageId' =
                         SetMap(gitLabIssuesIdToNotionPageId, ParsePages(pages'))
                  /\ cursor' = cursor
                  /\ pc' = "issues"
             ELSE /\ cursor' = next_cursor
                  /\ UNCHANGED << gitLabIssuesIdToNotionPageId, pc >>
    /\ UNCHANGED << pending, sourceVars, dest, options, runVars,
                    schemaUpdated, failedAt,
                    listerVars, labels, writerVars >>

\* One turn of the do-while loop of getGitLabIssuesForRepository.
FetchIssues ==
    /\ pc = "issues"
    /\ LET data == IssuesPage(page)
       IN /\ issues' = issues \o FilterAssigned(data)
          /\ lastPageSize' = Len(data)
          /\ page' = page + 1
          /\ pc' = IF PageWasFull(Len(data)) THEN "issues" ELSE "labels"
    /\ UNCHANGED << pending, sourceVars, dest, options, runVars,
                    schemaUpdated, failedAt,
                    notionListerVars, labels, writerVars >>

\* const labels = await getGitLabLabelsForProject()
FetchLabels ==
    /\ pc = "labels"
    /\ labels' = srcLabels
    /\ pc' = "taxonomy"
    /\ UNCHANGED << pending, sourceVars, dest, options, runVars,
                    schemaUpdated, failedAt,
                    listerVars, notionListerVars, writerVars >>

\* Mutant of UpdateMultiSelectOptions: the call is not awaited, the run goes
\* on while databases.update is in flight.
UpdateMultiSelectOptions_NotAwaited ==
    /\ pc = "taxonomy"
    /\ pc' = "reconcile"
    /\ UNCHANGED << pending, sourceVars, dest, options, runVars,
                    schemaUpdated, failedAt,
                    listerVars, notionListerVars, labels, writerVars >>

\* await updateMultiSelectOptions(labels): databases.update resolves.
UpdateMultiSelectOptions ==
    /\ pc = "taxonomy"
    /\ options' = MultiSelectOptions(labels)
    /\ schemaUpdated' = TRUE
    /\ pc' = "reconcile"
    /\ UNCHANGED << pending, sourceVars, dest, runVars,
                    failedAt, listerVars, notionListerVars,
                    labels, writerVars >>

\* A listing that asks again after a failed request.
FetchFails_Retried ==
    /\ pc \in { "retrieve", "query", "issues", "labels", "taxonomy" }
    /\ failedAt' = pc
    /\ UNCHANGED << pending, sourceVars, dest, options, runVars, schemaUpdated,
                    pc, listerVars, notionListerVars, labels, writerVars >>

\* The request a listing stage or the taxonomy stage awaits rejects (network
\* error, malformed JSON), or GitLab answers with an error body, which is no
\* array, so that data.filter / labels.map throws: nothing catches it, the run
\* ends with an unhandled rejection.
FetchFails ==
    /\ pc \in { "retrieve", "query", "issues", "labels", "taxonomy" }
    /\ pc' = "aborted"
    /\ failedAt' = pc
    /\ UNCHANGED << pending, sourceVars, dest, options, runVars, schemaUpdated,
                    listerVars, notionListerVars, labels, writerVars >>

\* A classification that puts each issue at the front of its list (unshift
\* in place of push).
Reconcile_Unshift ==
    /\ pc = "reconcile"
    /\ LET ops == getNotionOperations(issues, gitLabIssuesIdToNotionPageId)
           rev(s) == [ i \in 1..Len(s) |-> s[Len(s) + 1 - i] ]
       IN /\ pagesToCreate' = rev(ops.pagesToCreate)
          /\ pagesToUpdate' = rev(ops.pagesToUpdate)
          /\ createOps' = [ i \in 1..Len(ops.pagesToCreate) |-> "unissued" ]
          /\ updateOps' = [ i \in 1..Len(ops.pagesToUpdate) |-> "unissued" ]
    /\ batch' = 1
    /\ pc' = "create"
    /\ UNCHANGED << pending, sourceVars, dest, options, runVars, schemaUpdated,
                    failedAt, listerVars, notionListerVars, labels, awaiting >>

\* const { pagesToCreate, pagesToUpdate } = getNotionOperations(issues),
\* then createPages chunks its list.
Reconcile ==
    /\ pc = "reconcile"
    /\ LET ops == getNotionOperations(issues, gitLabIssuesIdToNotionPageId)
       IN /\ pagesToCreate' = ops.pagesToCreate
          /\ pagesToUpdate' = ops.pagesToUpdate
          /\ createOps' = [ i \in 1..Len(ops.pagesToCreate) |-> "unissued" ]
          /\ updateOps' = [ i \in 1..Len(ops.pagesToUpdate) |-> "unissued" ]
    /\ batch' = 1
    /\ pc' = "create"
    /\ UNCHANGED << pending, sourceVars, dest, options, runVars,
                    schemaUpdated, failedAt,
                    listerVars, notionListerVars, labels, awaiting >>

\* The work list of the writer the run is in.
WorkLen == IF pc = "create" THEN Len(pagesToCreate) ELSE Len(pagesToUpdate)

WorkIid(kind, i) ==
    IF kind = "create" THEN pagesToCreate[i] ELSE pagesToUpdate[i].iid

\* batch.map(issue => notion.pages.create/update({..., properties:
\* getPropertiesFromIssue(issue) })): the operations of the chunk are issued
\* in order; when the mapper throws at one element the elements before it
\* are in flight, the others are never issued and the writer rejects.
IssuedBy(kind, b, len) ==
    LET bad == { i \in ChunkPositions(b, len) : MapperThrows(WorkIid(kind, i)) }
    IN { i \in ChunkPositions(b, len) : \A j \in bad : i < j }

MapThrows(kind, b, len) ==
    \E i \in ChunkPositions(b, len) : MapperThrows(WorkIid(kind, i))

IssueBatch ==
    /\ pc \in { "create", "update" }
    /\ ~awaiting
    /\ batch <= NumChunks(WorkLen)
    /\ LET sent == IssuedBy(pc, batch, WorkLen)
           after(ops) == [ i \in DOMAIN ops |->
                             IF i \in sent THEN "inflight" ELSE ops[i] ]
       IN IF pc = "create"
          THEN createOps' = after(createOps) /\ UNCHANGED updateOps
          ELSE updateOps' = after(updateOps) /\ UNCHANGED createOps
    /\ IF MapThrows(pc, batch, WorkLen)
       THEN pc' = "aborted" /\ failedAt' = pc /\ UNCHANGED awaiting
       ELSE awaiting' = TRUE /\ UNCHANGED << pc, failedAt >>
    /\ UNCHANGED << pending, sourceVars, dest, options, runVars, schemaUpdated,
                    listerVars, notionListerVars, labels, pagesToCreate,
                    pagesToUpdate, batch >>

\* Mutant of AllResolved: the await returns on the first promise that
\* resolves (Promise.any in place of Promise.all).
AllResolved_Any(ops, b) ==
    \E i \in ChunkPositions(b, Len(ops)) : ops[i] = "ok"

\* Promise.all resolves once every promise of the chunk has resolved.
AllResolved(ops, b) ==
    \A i \in ChunkPositions(b, Len(ops)) : ops[i] = "ok"

\* await Promise.all(...) returns: the writer logs the batch and goes on to
\* the next chunk.
BatchCompleted ==
    /\ pc \in { "create", "update" }
    /\ awaiting
    /\ AllResolved(IF pc = "create" THEN createOps ELSE updateOps, batch)
    /\ awaiting' = FALSE
    /\ batch' = batch + 1
    /\ UNCHANGED << pending, sourceVars, dest, options, runVars,
                    schemaUpdated, failedAt, pc,
                    listerVars, notionListerVars, labels, pagesToCreate,
                    pagesToUpdate, createOps, updateOps >>

\* A sync that calls createPages without awaiting it.
WriterReturns_NotAwaited ==
    /\ pc \in { "create", "update" }
    /\ IF pc = "create"
       THEN pc' = "update" /\ batch' = 1 /\ awaiting' = FALSE
       ELSE /\ ~awaiting
            /\ batch > NumChunks(WorkLen)
            /\ pc' = "done"
            /\ UNCHANGED << batch, awaiting >>
    /\ UNCHANGED << pending, sourceVars, dest, options, runVars, schemaUpdated,
                    failedAt, listerVars, notionListerVars, labels,
                    pagesToCreate, pagesToUpdate, createOps, updateOps >>

\* The for loop over the chunks ends: createPages returns and updatePages
\* starts, or updatePages returns and the success line is logged.
WriterReturns ==
    /\ pc \in { "create", "update" }
    /\ ~awaiting
    /\ batch > NumChunks(WorkLen)
    /\ IF pc = "create"
       THEN pc' = "update" /\ batch' = 1
       ELSE pc' = "done" /\ UNCHANGED batch
    /\ UNCHANGED << pending, sourceVars, dest, options, runVars,
                    schemaUpdated, failedAt,
                    listerVars, notionListerVars, labels, pagesToCreate,
                    pagesToUpdate, awaiting, createOps, updateOps >>

\* A writer whose await never sees the rejection.
AfterRejection_Unseen(at) == at

\* Promise.all rejects as soon as one promise of the chunk rejects: the
\* writer and syncNotionDatabaseWithGitLab reject in turn and nothing
\* catches it.  The other operations of the chunk stay in flight.
AfterRejection(at) == IF at \in { "create", "update" } THEN "aborted" ELSE at

\* notion.pages.create(...) of an element of pagesToCreate resolves: the
\* database holds a new page with the properties of the issue.
CreateResolves ==
    \E i \in DOMAIN createOps :
        /\ createOps[i] = "inflight"
        /\ pagesToCreate[i] \notin rejects
        /\ dest' = StorePage(dest, NewPageId(runNo, pagesToCreate[i]),
                             getPropertiesFromIssue(pagesToCreate[i]))
        /\ createOps' = [ createOps EXCEPT ![i] = "ok" ]
        /\ UNCHANGED << pending, sourceVars, options, runVars,
                        schemaUpdated, failedAt, pc,
                        listerVars, notionListerVars, labels, pagesToCreate,
                        pagesToUpdate, batch, awaiting, updateOps >>

\* notion.pages.create(...) of an element of pagesToCreate rejects.
CreateRejects ==
    \E i \in DOMAIN createOps :
        /\ createOps[i] = "inflight"
        /\ pagesToCreate[i] \in rejects
        /\ createOps' = [ createOps EXCEPT ![i] = "failed" ]
        /\ pc' = AfterRejection(pc)
        /\ failedAt' = IF pc' # pc THEN pc ELSE failedAt
        /\ UNCHANGED << pending, sourceVars, dest, options, runVars, schemaUpdated,
                        listerVars, notionListerVars, labels, pagesToCreate,
                        pagesToUpdate, batch, awaiting, updateOps >>

\* notion.pages.update(...) of an element of pagesToUpdate resolves: the
\* page holds the properties of the issue.
UpdateResolves ==
    \E i \in DOMAIN updateOps :
        /\ updateOps[i] = "inflight"
        /\ pagesToUpdate[i].iid \notin rejects
        /\ dest' = StorePage(dest, pagesToUpdate[i].pageId,
                             getPropertiesFromIssue(pagesToUpdate[i].iid))
        /\ updateOps' = [ updateOps EXCEPT ![i] = "ok" ]
        /\ UNCHANGED << pending, sourceVars, options, runVars,
                        schemaUpdated, failedAt, pc,
                        listerVars, notionListerVars, labels, pagesToCreate,
                        pagesToUpdate, batch, awaiting, createOps >>

\* notion.pages.update(...) of an element of pagesToUpdate rejects.
UpdateRejects ==
    \E i \in DOMAIN updateOps :
        /\ updateOps[i] = "inflight"
        /\ pagesToUpdate[i].iid \in rejects
        /\ updateOps' = [ updateOps EXCEPT ![i] = "failed" ]
        /\ pc' = AfterRejection(pc)
        /\ failedAt' = IF pc' # pc THEN pc ELSE failedAt
        /\ UNCHANGED << pending, sourceVars, dest, options, runVars, schemaUpdated,
                        listerVars, notionListerVars, labels, pagesToCreate,
                        pagesToUpdate, batch, awaiting, createOps >>

\* At most one issue is malformed, at most one write is rejected.
AtMostOne(S) == { {} } \cup { {x} : x \in S }

\* The process has ended (success line logged, or unhandled rejection) and
\* is started again against the same GitLab project; requests the ended
\* process left in flight are lost with it.
StartRun ==
    /\ pc \in { "done", "aborted" }
    /\ runNo < MaxRuns
    /\ runNo' = runNo + 1
    /\ prevDone' = (pc = "done")
    /\ rejects' \in AtMostOne(assigned)
    /\ pc' = "retrieve"
    /\ schemaUpdated' = FALSE
    /\ failedAt' = "none"
    /\ cursor' = NoCursor
    /\ pages' = << >>
    /\ gitLabIssuesIdToNotionPageId' = EmptyMap
    /\ page' = 1
    /\ lastPageSize' = -1
    /\ issues' = << >>
    /\ labels' = << >>
    /\ pagesToCreate' = << >>
    /\ pagesToUpdate' = << >>
    /\ batch' = 0
    /\ awaiting' = FALSE
    /\ createOps' = << >>
    /\ updateOps' = << >>
    /\ UNCHANGED << pending, sourceVars, dest, options >>

\* The creates of the running process that Notion has not answered yet.
InFlightCreates == { i \in DOMAIN createOps : createOps[i] = "inflight" }

\* Nothing keeps a second process from being started while the first is
\* suspended at await Promise.all of a batch of creates.  The model follows
\* the second process; of the first it keeps the pages.create requests that
\* are in flight.
StartRunOverlapping ==
    /\ pc = "create"
    /\ awaiting
    /\ runNo < MaxRuns
    /\ pending' = pending \cup { [ run |-> runNo, iid |-> pagesToCreate[i] ]
                                   : i \in InFlightCreates }
    /\ runNo' = runNo + 1
    /\ prevDone' = FALSE
    /\ rejects' = {}
    /\ pc' = "retrieve"
    /\ schemaUpdated' = FALSE
    /\ failedAt' = "none"
    /\ cursor' = NoCursor
    /\ pages' = << >>
    /\ gitLabIssuesIdToNotionPageId' = EmptyMap
    /\ page' = 1
    /\ lastPageSize' = -1
    /\ issues' = << >>
    /\ labels' = << >>
    /\ pagesToCreate' = << >>
    /\ pagesToUpdate' = << >>
    /\ batch' = 0
    /\ awaiting' = FALSE
    /\ createOps' = << >>
    /\ updateOps' = << >>
    /\ UNCHANGED << sourceVars, dest, options >>

\* notion.pages.create(...) of the suspended process resolves.
PendingCreateResolves ==
    \E r \in pending :
        /\ dest' = StorePage(dest, NewPageId(r.run, r.iid),
                             getPropertiesFromIssue(r.iid))
        /\ pending' = pending \ { r }
        /\ UNCHANGED << sourceVars, options, runVars, schemaUpdated, failedAt,
                        pc, listerVars, notionListerVars, labels, writerVars >>

(***************************************************************************)
(* Specifications                                                          *)
(***************************************************************************)
\* The texts the "id" property of a page of the database may hold before the
\* first run: written by the program ("#1", "#2"), edited by hand ("x1",
\* "#x", "1"), or none (an empty rich_text).
IdTexts ==
    { << "#", "1" >>, << "#", "2" >>, << "x", "1" >>, << "#", "x" >>, << "1" >> }

IdProperties == { << >> } \cup { << t >> : t \in IdTexts }

Databases == UNION { [ 1..k -> IdProperties ] : k \in 0..MaxDestPages }

LabelList(n) == [ i \in 1..n |-> i ]

\* Spec: runs one after the other against a small project and a database
\* that holds any pages.
Init ==
    /\ iidBase = 0
    /\ nIssues \in 0..MaxIssues
    /\ assigned \in SUBSET (1..nIssues)
    /\ malformed \in AtMostOne(assigned)
    /\ srcLabels = LabelList(MaxLabels)
    /\ dest \in Databases
    /\ options = << >>
    /\ rejects \in AtMostOne(assigned)
    /\ pending = {}
    /\ runNo = 1
    /\ prevDone = FALSE
    /\ ProcessStart

Listing_ == RetrieveDb \/ QueryDb \/ FetchIssues \/ FetchLabels

Writing_ ==
    \/ IssueBatch
    \/ BatchCompleted
    \/ WriterReturns
    \/ CreateResolves
    \/ UpdateResolves

Failing_ == FetchFails \/ CreateRejects \/ UpdateRejects

Run == Listing_ \/ UpdateMultiSelectOptions \/ Reconcile \/ Writing_ \/ Failing_

Next == Run \/ StartRun

Spec == Init /\ [][Next]_vars

\* SpecLister: the listing stages of one run against projects whose issue
\* count makes the last page short, full or empty, with the assigned issues
\* at the first and last positions of the pages.
ListerSizes == { 0, 37, 99, 100, 101, 200, 237 }

ProbeIids == { 1, 37, 100, 101, 200, 201, 237 }

InitLister ==
    /\ iidBase = 0
    /\ nIssues \in ListerSizes
    /\ assigned \in SUBSET (ProbeIids \cap 1..nIssues)
    /\ malformed = {}
    /\ srcLabels = LabelList(MaxLabels)
    /\ dest \in { [ i \in 1..k |-> << IdentityText(i) >> ] : k \in 0..MaxDestPages }
    /\ options = << >>
    /\ rejects = {}
    /\ pending = {}
    /\ runNo = 1
    /\ prevDone = FALSE
    /\ ProcessStart

NextLister == Listing_ \/ FetchFails

SpecLister == InitLister /\ [][NextLister]_vars

\* SpecWriter: one run that has WriterIssues pages to write, all to create
\* or the first WriterExisting of them to update; at most one write is
\* rejected, or else at most one issue is malformed.
WriterFaults ==
    { [ malformed |-> {}, rejects |-> R ] : R \in AtMostOne(1..WriterIssues) }
    \cup { [ malformed |-> M, rejects |-> {} ] : M \in AtMostOne(1..WriterIssues) }

InitWriter ==
    /\ iidBase = 0
    /\ nIssues = WriterIssues
    /\ assigned = 1..WriterIssues
    /\ \E f \in WriterFaults : malformed = f.malformed /\ rejects = f.rejects
    /\ srcLabels = LabelList(MaxLabels)
    /\ dest \in { [ i \in 1..k |-> << IdentityText(i) >> ] : k \in { 0, WriterExisting } }
    /\ options = << >>
    /\ pending = {}
    /\ runNo = 1
    /\ prevDone = FALSE
    /\ ProcessStart

SpecWriter == InitWriter /\ [][Run]_vars

\* SpecIdentity: a project whose one issue has any iid up to MaxLocalId is
\* synced into an empty database by runs that meet no failure.
InitIdentity ==
    /\ iidBase \in 0..(MaxLocalId - 1)
    /\ nIssues = 1
    /\ assigned = { iidBase + 1 }
    /\ malformed = {}
    /\ srcLabels = LabelList(MaxLabels)
    /\ dest = EmptyMap
    /\ options = << >>
    /\ rejects = {}
    /\ pending = {}
    /\ runNo = 1
    /\ prevDone = FALSE
    /\ ProcessStart

RestartAfterSuccess == StartRun /\ rejects' = {}

NextIdentity ==
    Listing_ \/ UpdateMultiSelectOptions \/ Reconcile \/ Writing_ \/ RestartAfterSuccess

SpecIdentity == InitIdentity /\ [][NextIdentity]_vars

\* SpecTaxonomy: the run up to the taxonomy stage, for projects with up to
\* MaxLabels labels in either order and a database whose select property
\* has no options yet or options of an earlier state of the project.
TaxonomyLabels ==
    UNION { { LabelList(n), [ i \in 1..n |-> n + 1 - i ] } : n \in 0..MaxLabels }

StaleOptions ==
    { << >>,
      << [ name |-> MaxLabels + 1, color |-> "red" ],
         [ name |-> 1, color |-> "gray" ] >> }

InitTaxonomy ==
    /\ iidBase = 0
    /\ nIssues \in 0..MaxIssues
    /\ assigned = 1..nIssues
    /\ malformed = {}
    /\ srcLabels \in TaxonomyLabels
    /\ dest = EmptyMap
    /\ options \in StaleOptions
    /\ rejects = {}
    /\ pending = {}
    /\ runNo = 1
    /\ prevDone = FALSE
    /\ ProcessStart

NextTaxonomy == Listing_ \/ UpdateMultiSelectOptions \/ FetchFails

SpecTaxonomy == InitTaxonomy /\ [][NextTaxonomy]_vars

\* SpecRerun: runs one after the other, any of which may meet a failure at
\* any stage, against a database every page of which holds "#" and an
\* integer, written by the program ("#1", "#2") or by hand ("#01"), no two
\* pages holding the same integer.
RerunTexts == { << "#", "1" >>, << "#", "0", "1" >>, << "#", "2" >> }

RerunDatabases ==
    { db \in UNION { [ 1..k -> { << t >> : t \in RerunTexts } ]
                       : k \in 0..MaxDestPages } :
        \A p, q \in DOMAIN db :
            (p # q) => /\ db[p] # db[q]
                       /\ { db[p][1], db[q][1] }
                             # { << "#", "1" >>, << "#", "0", "1" >> } }

InitRerun ==
    /\ iidBase = 0
    /\ nIssues \in 1..MaxIssues
    /\ assigned \in SUBSET (1..nIssues)
    /\ malformed \in AtMostOne(assigned)
    /\ srcLabels = LabelList(MaxLabels)
    /\ dest \in RerunDatabases
    /\ options = << >>
    /\ rejects \in AtMostOne(assigned)
    /\ pending = {}
    /\ runNo = 1
    /\ prevDone = FALSE
    /\ ProcessStart

SpecRerun == InitRerun /\ [][Next]_vars

\* SpecRace: processes that overlap, without failures, against a database
\* that is empty at first.
InitRace ==
    /\ iidBase = 0
    /\ nIssues \in 1..MaxIssues
    /\ assigned \in SUBSET (1..nIssues)
    /\ malformed = {}
    /\ srcLabels = LabelList(MaxLabels)
    /\ dest = EmptyMap
    /\ options = << >>
    /\ rejects = {}
    /\ pending = {}
    /\ runNo = 1
    /\ prevDone = FALSE
    /\ ProcessStart

NextRace ==
    \/ Listing_
    \/ UpdateMultiSelectOptions
    \/ Reconcile
    \/ Writing_
    \/ StartRunOverlapping
    \/ PendingCreateResolves

SpecRace == InitRace /\ [][NextRace]_vars

\* SpecLive: one run, which may meet failures, in which every request is
\* answered in the end and the continuation of every await is run: a step
\* of the run that stays possible is taken.
SpecLive == Init /\ [][Run]_vars /\ WF_vars(Run)

(***************************************************************************)
(* Claims                                                                  *)
(***************************************************************************)
Issued(ops) == { i \in DOMAIN ops : ops[i] # "unissued" }

InFlight(ops) == { i \in DOMAIN ops : ops[i] = "inflight" }

Failed(ops) == { i \in DOMAIN ops : ops[i] = "failed" }

BatchOf(i) == ((i - 1) \div OPERATION_BATCH_SIZE) + 1

RunEnded == pc \in { "done", "aborted" }

\* C1 (as claimed): a write that fails does not keep the writer from the
\* rest of the work: when the run has ended after a write failed, no
\* operation of either work list was left unissued.
C1_BatchIsolation ==
    (RunEnded /\ (Failed(createOps) # {} \/ Failed(updateOps) # {}))
        => /\ Issued(createOps) = DOMAIN createOps
           /\ Issued(updateOps) = DOMAIN updateOps

\* C2: batches are written strictly in sequence: while an operation of a
\* batch is in flight no operation of a later batch (nor, for a create, any
\* update) has been issued, so at most OPERATION_BATCH_SIZE writes are in
\* flight at once.
C2_BatchesInSequence ==
    /\ \A i, j \in DOMAIN createOps :
          (createOps[i] = "inflight" /\ BatchOf(j) > BatchOf(i))
              => createOps[j] = "unissued"
    /\ \A i, j \in DOMAIN updateOps :
          (updateOps[i] = "inflight" /\ BatchOf(j) > BatchOf(i))
              => updateOps[j] = "unissued"
    /\ InFlight(createOps) # {} => Issued(updateOps) = {}
    /\ Cardinality(InFlight(createOps)) + Cardinality(InFlight(updateOps))
          <= OPERATION_BATCH_SIZE

\* C2 witness: the second batch of creates is in flight in full, the first
\* has resolved and the third is not issued.
C2_Witness ==
    /\ pc = "create"
    /\ batch = 2
    /\ Cardinality(InFlight(createOps)) = OPERATION_BATCH_SIZE
    /\ Len(pagesToCreate) > 2 * OPERATION_BATCH_SIZE

\* C3: a create or update has been issued in a run only after the run's
\* databases.update resolved and replaced the tag options; a run whose
\* taxonomy sync failed has issued none.
C3_TaxonomyFirst ==
    (Issued(createOps) # {} \/ Issued(updateOps) # {})
        => (schemaUpdated /\ options = MultiSelectOptions(srcLabels))

\* C3 witness: a write is in flight in the first run, the options replaced.
C3_Witness ==
    /\ runNo = 1
    /\ schemaUpdated
    /\ options # << >>
    /\ InFlight(createOps) # {} \/ InFlight(updateOps) # {}

Reconciled == pc \in { "create", "update", "done" }

UpdateIids == { pagesToUpdate[i].iid : i \in 1..Len(pagesToUpdate) }

\* C4: in a run that follows a run that logged the success line, every
\* issue of the unchanged project is classified as an update and none as a
\* create, and the run adds no page to the database.
C4_Idempotence ==
    (runNo > 1 /\ prevDone)
        => /\ \A iid \in assigned : NewPageId(runNo, iid) \notin DOMAIN dest
           /\ Reconciled
                => /\ pagesToCreate = << >>
                   /\ Len(pagesToUpdate) = Cardinality(assigned)
                   /\ UpdateIids = assigned

\* C4 witness: the second run has ended with two updates, after a first run
\* that created the page of issue 1.
C4_Witness ==
    /\ runNo = 2
    /\ prevDone
    /\ pc = "done"
    /\ Len(pagesToUpdate) = 2
    /\ NewPageId(1, 1) \in DOMAIN dest

\* C5: the two work lists are disjoint and together hold every listed issue
\* exactly once.
C5_Partition ==
    Reconciled
        => /\ Len(pagesToCreate) + Len(pagesToUpdate) = Len(issues)
           /\ Range(pagesToCreate) \cap UpdateIids = {}
           /\ Range(pagesToCreate) \cup UpdateIids = Range(issues)
           /\ Cardinality(Range(pagesToCreate)) = Len(pagesToCreate)
           /\ Cardinality(UpdateIids) = Len(pagesToUpdate)

\* C5 witness: a classification with an issue in each list.
C5_Witness ==
    /\ pc = "create"
    /\ Len(pagesToCreate) >= 1
    /\ Len(pagesToUpdate) >= 1

\* The identity text the spec calls well-formed: "#" followed by an integer.
IsInteger(t) == t # << >> /\ \A i \in 1..Len(t) : t[i] \in Range(Digit)

WellFormed(pg) ==
    /\ pg.rich_text # << >>
    /\ pg.rich_text[1] # << >>
    /\ pg.rich_text[1][1] = "#"
    /\ IsInteger(Tail(pg.rich_text[1]))

MapValues ==
    { gitLabIssuesIdToNotionPageId[k] : k \in DOMAIN gitLabIssuesIdToNotionPageId }

IndexBuilt ==
    pc \in { "issues", "labels", "taxonomy", "reconcile", "create", "update", "done" }

\* C6 (as claimed): a listed page whose identity text is malformed or absent
\* is under no key of the map.
C6_MalformedSkipped ==
    \A i \in 1..Len(pages) : ~WellFormed(pages[i]) => pages[i].id \notin MapValues

\* The pages of the listing that are read without a throw, and their keys.
Readable == { i \in 1..Len(pages) : ~ReadThrows(pages[i]) }

LastWithKey(k) ==
    CHOOSE i \in Readable :
        /\ IssueNumberOf(pages[i]) = k
        /\ \A j \in Readable : IssueNumberOf(pages[j]) = k => j <= i

Requests == page - 1

\* The first page of the project that is not full.
FirstShortPage ==
    CHOOSE p \in 1..((nIssues \div pageSize) + 1) :
        /\ Len(IssuesPage(p)) < pageSize
        /\ \A q \in 1..(p - 1) : Len(IssuesPage(q)) = pageSize

ProjectIids == (iidBase + 1)..(iidBase + nIssues)

ListingEnded == pc \in { "labels", "taxonomy" }

\* C8: the lister requests page after page and stops after the first page
\* shorter than pageSize: while it lists, every page received was full;
\* when it has ended, the requests made are as many as the position of the
\* first short page and the result is the assigned issues in page order.
C8_ShortPageStops ==
    /\ pc = "issues" => \A q \in 1..Requests : Len(IssuesPage(q)) = pageSize
    /\ ListingEnded
          => /\ Requests = FirstShortPage
             /\ issues = SortedSeq(assigned \cap ProjectIids)
             /\ nIssues \in { 200, 237 } => Requests = 3

\* C8 witness: a project of two full pages has been listed with three
\* requests, the last one answered by an empty page.
C8_Witness ==
    /\ ListingEnded
    /\ nIssues = 2 * pageSize
    /\ Requests = 3
    /\ lastPageSize = 0
    /\ Len(issues) >= 2

\* C9: no issue without the assignee is in the lister's output, and the
\* decision to request the next page rests on the unfiltered length of the
\* page received.
C9_FilterCorrect ==
    /\ Range(issues) \subseteq assigned
    /\ (pc \in { "issues", "labels", "taxonomy" } /\ Requests >= 1)
          => /\ lastPageSize = Len(IssuesPage(Requests))
             /\ pc = "issues" <=> lastPageSize = pageSize

\* C9 witness: a full page none of whose issues is assigned has been
\* received, and the lister goes on to the next page.
C9_Witness ==
    /\ pc = "issues"
    /\ Requests = 1
    /\ issues = << >>
    /\ assigned # {}

\* C10: the page a run created for an issue is found by the next run's
\* lookup of that issue: the map built from the listing holds the page
\* under the key of the iid, and the page holds "#" + iid.
C10_IdentityRoundTrip ==
    (runNo > 1 /\ IndexBuilt)
        => \A iid \in assigned :
              /\ Lookup(gitLabIssuesIdToNotionPageId, iid) = NewPageId(1, iid)
              /\ dest[NewPageId(1, iid)] = << << "#" >> \o ToStr(iid) >>

\* C10 witness: the second run has updated the page of issue MaxLocalId.
C10_Witness ==
    /\ runNo = 2
    /\ pc = "done"
    /\ assigned = { MaxLocalId }
    /\ Len(pagesToUpdate) = 1
    /\ pagesToUpdate[1].pageId = NewPageId(1, MaxLocalId)

\* The stages that list the destination, the source issues and the labels.
ListingStages == { "retrieve", "query", "issues", "labels" }

\* C11: a request that fails while the destination, the source issues or
\* the labels are listed ends the run: the run stays aborted, the failed
\* request is not sent again, and no page create or update is ever issued.
C11_ListingFailureFatal ==
    failedAt \in ListingStages
        => /\ pc = "aborted"
           /\ Issued(createOps) = {}
           /\ Issued(updateOps) = {}
           /\ pagesToCreate = << >>
           /\ pagesToUpdate = << >>
           /\ ~schemaUpdated

\* C11 witness: the labels request failed after the listings had found an
\* issue to write; nothing was written.
C11_Witness ==
    /\ failedAt = "labels"
    /\ pc = "aborted"
    /\ issues # << >>

\* C12: an issue the mapper cannot map fails alone: when the run has ended,
\* every other issue of the create list and of the update list has been
\* mapped and its write issued.
C12_MapperIsolation ==
    (RunEnded /\ malformed # {} /\ failedAt \notin ListingStages \cup { "taxonomy" })
        => /\ \A i \in DOMAIN pagesToCreate :
                 ~MapperThrows(WorkIid("create", i)) => i \in Issued(createOps)
           /\ \A i \in DOMAIN pagesToUpdate :
                 ~MapperThrows(WorkIid("update", i)) => i \in Issued(updateOps)

\* The stage of the run, counted in the order BuildingIndex, Listing,
\* SyncingTaxonomy, Reconciling, Writing(creates), Writing(updates), Done.
StageNo(p) ==
    CASE p \in { "retrieve", "query" } -> 1
      [] p \in { "issues", "labels" }  -> 2
      [] p = "taxonomy"                -> 3
      [] p = "reconcile"               -> 4
      [] p = "create"                  -> 5
      [] p = "update"                  -> 6
      [] p = "done"                    -> 7

\* A step of one run stays in its stage, enters the next stage or aborts;
\* an ended run takes no further stage.
StageStep ==
    runNo' = runNo
        => IF pc \in { "done", "aborted" }
           THEN pc' = pc
           ELSE \/ pc' = "aborted"
                \/ StageNo(pc') = StageNo(pc)
                \/ StageNo(pc') = StageNo(pc) + 1

\* An update has been issued only when every create has resolved.
UpdatesAfterCreates ==
    Issued(updateOps) # {} => \A i \in DOMAIN createOps : createOps[i] = "ok"

\* C13: a run goes through its stages in order, one after the other, and
\* enters none of them again; no update is issued before every create has
\* settled.
C13_StagesInOrder == [] UpdatesAfterCreates /\ [][StageStep]_vars

\* C13 witness: a run that had a page to create and a page to update has
\* reached Done.
C13_Witness ==
    /\ pc = "done"
    /\ pagesToCreate # << >>
    /\ pagesToUpdate # << >>
    /\ Issued(updateOps) # {}

\* The position of an issue in the list the source lister returned.
PositionOf(iid) == CHOOSE k \in DOMAIN issues : issues[k] = iid

\* C14: the issues of pagesToCreate, and those of pagesToUpdate, stand in
\* the order in which the source lister returned them.
C14_OrderPreserved ==
    Reconciled
        => /\ \A i, j \in DOMAIN pagesToCreate :
                 i < j => PositionOf(pagesToCreate[i]) < PositionOf(pagesToCreate[j])
           /\ \A i, j \in DOMAIN pagesToUpdate :
                 i < j => PositionOf(pagesToUpdate[i].iid)
                             < PositionOf(pagesToUpdate[j].iid)

\* C14 witness: both lists of a classification hold several issues.
C14_Witness ==
    /\ Reconciled
    /\ Len(pagesToCreate) > OPERATION_BATCH_SIZE
    /\ Len(pagesToUpdate) > OPERATION_BATCH_SIZE

\* C15: once the taxonomy stage has resolved, the select property has one
\* option per label of the project, in the order of the labels; the first
\* Len(availableColors) options have the colours of availableColors in
\* order, and every later option has the colour of the option
\* Len(availableColors) places before it.
C15_OptionsFromLabels ==
    schemaUpdated
        => /\ Len(options) = Len(srcLabels)
           /\ \A i \in DOMAIN options :
                 /\ options[i].name = srcLabels[i]
                 /\ i <= Len(availableColors)
                       => options[i].color = availableColors[i]
                 /\ i > Len(availableColors)
                       => options[i].color
                             = options[i - Len(availableColors)].color

\* C15 witness: a project with more labels than colours has been synced,
\* and the label after the last colour has the first colour again.
C15_Witness ==
    /\ schemaUpdated
    /\ Len(options) > Len(availableColors)
    /\ options[Len(availableColors) + 1].color = availableColors[1]
    /\ options[1].name > options[2].name

\* The classification agrees with the index: an issue is in pagesToUpdate,
\* with the page id the index holds, exactly when the index has its key,
\* and in pagesToCreate exactly when the index has not.
ClassifiedByIndex ==
    Reconciled
        => \A iid \in Range(issues) :
              LET inIndex == KeyOf(iid) \in DOMAIN gitLabIssuesIdToNotionPageId
                  upd == { i \in DOMAIN pagesToUpdate : pagesToUpdate[i].iid = iid }
              IN /\ inIndex <=> upd # {}
                 /\ \A i \in upd :
                       pagesToUpdate[i].pageId
                          = gitLabIssuesIdToNotionPageId[KeyOf(iid)]
                 /\ ~inIndex <=> iid \in Range(pagesToCreate)

\* From the classification on, no step of the run changes the index.
IndexReadOnly ==
    (runNo' = runNo /\ pc \in { "reconcile", "create", "update", "done", "aborted" })
        => gitLabIssuesIdToNotionPageId' = gitLabIssuesIdToNotionPageId

\* C16: an issue is classified as an update of the page the index holds for
\* it exactly when the index has an entry for it, and as a create exactly
\* when it has none; classification and writes leave the index as it was.
C16_ClassifiedByIndex == [] ClassifiedByIndex /\ [][IndexReadOnly]_vars

\* C16 witness: a run has created a page for one issue and updated the
\* page of another, and its index has the entry it had for the second only.
C16_Witness ==
    /\ pc = "done"
    /\ pagesToCreate # << >>
    /\ pagesToUpdate # << >>
    /\ KeyOf(pagesToCreate[1]) \notin DOMAIN gitLabIssuesIdToNotionPageId
    /\ \E pg \in DOMAIN dest : dest[pg] = << IdentityText(pagesToCreate[1]) >>

\* The integer a sequence of digits denotes, and the localId embedded in a
\* page: the integer after the one-character prefix of its identity text.
RECURSIVE IntOf(_)
IntOf(t) ==
    IF t = << >> THEN 0
    ELSE IntOf(SubSeq(t, 1, Len(t) - 1)) * 10
            + ((CHOOSE d \in DOMAIN Digit : Digit[d] = t[Len(t)]) - 1)

LocalIdOf(pg) == IntOf(Tail(pg.rich_text[1]))

\* C17: whatever runs have ended or aborted before, a database all of whose
\* pages hold a well-formed identity has no two pages with the same localId.
C17_NoDuplicateLocalId ==
    (\A i \in DOMAIN Listing : WellFormed(Listing[i]))
        => \A i, j \in DOMAIN Listing :
              i # j => LocalIdOf(Listing[i]) # LocalIdOf(Listing[j])

\* The number of databases.query calls that have been answered, and the
\* number of pages of results the database has, up to and including the
\* first that comes without a next_cursor.
QueriesAnswered ==
    CASE pc = "retrieve" -> 0
      [] pc = "query"    -> Len(pages) \div DestPageSize
      [] OTHER           -> (cursor \div DestPageSize) + 1

ResultPages ==
    CHOOSE n \in 1..(Len(Listing) + 1) :
        /\ QueryNextCursor((n - 1) * DestPageSize) = NoCursor
        /\ \A k \in 1..(n - 1) : QueryNextCursor((k - 1) * DestPageSize) # NoCursor

\* C18: the first query carries no cursor and each later one the cursor of
\* the response before it; what has been accumulated is the listing of the
\* database up to that cursor, in order; the lister stops at the first
\* response without a cursor, having sent one query per page of results
\* and accumulated the whole listing.
C18_CursorPagination ==
    /\ (pc = "query" /\ pages = << >>) => cursor = NoCursor
    /\ pc = "query"
          => /\ Len(pages) = cursor
             /\ pages = SubSeq(Listing, 1, cursor)
             /\ QueriesAnswered < ResultPages
    /\ pc \in { "issues", "labels", "taxonomy", "reconcile" }
          => /\ pages = Listing
             /\ QueryNextCursor(cursor) = NoCursor
             /\ QueriesAnswered = ResultPages

\* C18 witness: a listing that took more than one query has ended.
C18_Witness ==
    /\ pc = "issues"
    /\ QueriesAnswered > 1
    /\ Len(pages) > DestPageSize

\* C19: nothing but the listing keeps a process from creating a page for an
\* issue: the database holds a page of an earlier process and a page of the
\* running process for the same issue only when the earlier page was not
\* in the listing the running process built its index from.
C19_DuplicateByRace ==
    \A iid \in 1..nIssues : \A r \in 1..(runNo - 1) :
        ({ NewPageId(r, iid), NewPageId(runNo, iid) } \subseteq DOMAIN dest)
            => \A k \in DOMAIN pages : pages[k].id # NewPageId(r, iid)

\* C19 witness: two overlapping processes have each created a page for the
\* same issue, and the database holds both.
C19_Witness ==
    \E iid \in assigned :
        /\ runNo = 2
        /\ { NewPageId(1, iid), NewPageId(2, iid) } \subseteq DOMAIN dest
        /\ dest[NewPageId(1, iid)] = dest[NewPageId(2, iid)]
        /\ dest[NewPageId(1, iid)] = << IdentityText(iid) >>

=============================================================================
